---- MODULE Spec2Model ----
(***************************************************************************)
(* Alinta Energy assistant: the HTTP facade (app/app.py and                *)
(* app/backend/api/routes.py), the RAG orchestrator                        *)
(* (app/backend/rag/generation.py), the retriever                          *)
(* (app/backend/rag/retrieval.py) and the chunker                          *)
(* (data_pipeline/notebooks/03_create_chunks.py).                          *)
(*                                                                         *)
(* Python's None is the empty tuple <<>> and a present value x is <<x>>.   *)
(* A string that the code inspects character by character (the question)   *)
(* is a sequence of one-character strings.                                 *)
(***************************************************************************)
EXTENDS Integers, Sequences, FiniteSets, TLC

VARIABLES
    facade,                 \* which application serves: "app" (app/app.py) or "routes" (backend/main.py + api/routes.py)
    rag_pipeline,           \* routes.py module global, set once at import
    _rag_pipeline,          \* app.py module global (memoized pipeline)
    _initialization_error,  \* app.py module global (memoized setup error)
    init_attempts,          \* history: how often app.py ran the setup in get_rag_pipeline
    pipeline_log,           \* history: every outcome get_rag_pipeline has had
    pipeline_calls,         \* history: how often get_rag_pipeline was called, counted up to MaxCallsCounted
    last_error,             \* history: <<failing stage, exception message, response>> of the last earlier request that raised
    req,                    \* the requests in flight, one record per request slot
    chunker,                \* one call of chunk_text: its arguments, locals and position
    unit                    \* one direct call of a library function: which one, its arguments, what it gave

service_vars == <<facade, rag_pipeline, _rag_pipeline, _initialization_error,
                  init_attempts, pipeline_log, pipeline_calls, last_error, req>>

vars == <<service_vars, chunker, unit>>

None == <<>>
Some(x) == <<x>>

\* ------------------------------------------------------------------ bounds

\* the vector index returns at most this many hits to one query
MaxRecords == 2
\* calls of get_rag_pipeline are counted up to this many
MaxCallsCounted == 2
\* chunk_text is called with texts of at most this many words
MaxWords == 6
\* ... with chunk_size in 1..MaxChunkSize, overlap in 0..MaxChunkSize + 1 and
\* MIN_CHUNK_SIZE in 0..MaxChunkSize
MaxChunkSize == 3
\* a run of the sliding loop is followed for at most this many iterations
MaxIterations == 8
MaxSources == 4          \* records of a RetrievalResult built directly
MaxHistory == 12         \* turns of a conversation history handed to generate()
MaxBlocks == 3           \* blocks of a structured message content

\* ------------------------------------------------------- program constants

\* models.py: Field(min_length=1, max_length=1000), Field(ge=1, le=10)
question_min_length == 1
question_max_length == 1000
top_k_ge == 1
top_k_le == 10
\* app.py: top_k: Optional[int] = 3
app_top_k_default == 3
\* config.py: top_k_results: int = 3
history_limit == 10
top_k_results == 3

llm_model == "databricks-gpt-oss-120b-preview"

HTTP_400_BAD_REQUEST == 400
HTTP_500_INTERNAL_SERVER_ERROR == 500
HTTP_503_SERVICE_UNAVAILABLE == 503

\* prompts.py ERROR_MESSAGES
ERROR_MESSAGES ==
    [retrieval_failed |-> "I'm having trouble accessing information right now. Please try again in a moment or contact Alinta Energy directly at 13 13 58.",
     generation_failed |-> "I apologize, but I encountered an error generating a response. Please try rephrasing your question or contact Alinta Energy at 13 13 58.",
     no_context |-> "I couldn't find relevant information to answer your question. For specific details, please contact Alinta Energy at 13 13 58 or visit alintaenergy.com.au."]

\* ------------------------------------------------------------------ inputs

Requests == {"r1", "r2"}
\* requests the event loop runs: a handler is a coroutine without an await,
\* so one request is in flight at a time
Serial == {"r1"}

Facades == {"app", "routes"}

\* a question as its characters: empty, blank, plain, padded
Questions == {<<>>, <<" ">>, <<"q">>, <<" ", "q", " ">>}

\* top_k of a request body: absent, explicit null, or an integer around the limits
TopKInputs ==
    {<<"absent">>, <<"null">>}
    \cup {<<"int", k>> : k \in {top_k_ge - 1, top_k_ge, top_k_le, top_k_le + 1}}

\* conversation_history of a request body: absent or empty, or one earlier turn
RequestHistories == {<<>>, <<[role |-> "user", content |-> "earlier question"]>>}

\* the text an underlying client puts in the exception it raises
ExcTexts == {"connection refused", "token dapi-secret rejected"}

\* one hit of the vector index, as retrieve() reads it: two pages, one of
\* them under two titles, and a hit without a url
Hits ==
    {[url |-> "a", title |-> "t1", content |-> "text"],
     [url |-> "a", title |-> "t2", content |-> "text"],
     [url |-> "b", title |-> "t1", content |-> "text"],
     [url |-> "", title |-> "t1", content |-> "text"]}

RECURSIVE SeqsUpTo(_, _)
SeqsUpTo(S, n) ==
    IF n = 0 THEN {<<>>}
    ELSE LET shorter == SeqsUpTo(S, n - 1) IN
         shorter \cup {Append(s, x) : s \in {t \in shorter : Len(t) = n - 1}, x \in S}

\* what the vector-search service does with one query
IndexOutcomes ==
    [raised : {TRUE}, text : ExcTexts, data_array : {<<>>}]
    \cup [raised : {FALSE}, text : {""}, data_array : SeqsUpTo(Hits, MaxRecords)]

\* message.content of a completion: a plain string, or a list of blocks
PlainText(text) == [kind |-> "str", text |-> text, blocks |-> <<>>]

Blocks(blocks) == [kind |-> "list", text |-> "", blocks |-> blocks]

\* what the serving endpoint does with one chat completion
LlmOutcomes ==
    [raised : {TRUE}, text : ExcTexts, content : {PlainText("")}, total_tokens : {None},
     finish_reason : {""}]
    \cup [raised : {FALSE}, text : {""}, content : {PlainText("answer")},
          total_tokens : {None, Some(7)}, finish_reason : {"stop", "length"}]

\* ------------------------------------------------------------- str.strip()

IsSpace(c) == c = " "

RECURSIVE lstrip(_)
lstrip(s) == IF s # <<>> /\ IsSpace(Head(s)) THEN lstrip(Tail(s)) ELSE s

RECURSIVE rstrip(_)
rstrip(s) ==
    IF s # <<>> /\ IsSpace(s[Len(s)]) THEN rstrip(SubSeq(s, 1, Len(s) - 1)) ELSE s

strip(s) == rstrip(lstrip(s))

\* the characters of a question as one string
RECURSIVE str_of(_)
str_of(chars) == IF chars = <<>> THEN "" ELSE Head(chars) \o str_of(Tail(chars))

\* ------------------------------------------------------------ a[i:j]

\* a slice that leaves out the last element it should hold
py_slice_exclusive(a, i, j) ==
    SubSeq(a, (IF i < 0 THEN 0 ELSE i) + 1, (IF j > Len(a) THEN Len(a) ELSE j) - 1)

\* a[i:j] of Python, i and j 0-based and possibly negative or past the end
slice_index(n, i) == IF i < 0 THEN (IF n + i < 0 THEN 0 ELSE n + i) ELSE (IF i > n THEN n ELSE i)

py_slice(a, i, j) == SubSeq(a, slice_index(Len(a), i) + 1, slice_index(Len(a), j))

\* ---------------------------------------------------- request schemas

\* api/models.py ChatRequest: pydantic rejects the body before the handler runs
routes_ChatRequest_valid(q, tk) ==
    /\ Len(q) >= question_min_length
    /\ Len(q) <= question_max_length
    /\ tk[1] = "int" => (tk[2] >= top_k_ge /\ tk[2] <= top_k_le)

\* app.py ChatRequest: question: str, top_k: Optional[int] = 3, no constraints
app_ChatRequest_valid(q, tk) == TRUE

ChatRequest_valid(f, q, tk) ==
    IF f = "routes" THEN routes_ChatRequest_valid(q, tk) ELSE app_ChatRequest_valid(q, tk)

\* request.top_k after parsing: the field's default when absent
routes_top_k(tk) == IF tk[1] = "int" THEN Some(tk[2]) ELSE None

app_top_k(tk) ==
    IF tk[1] = "int" THEN Some(tk[2])
    ELSE IF tk[1] = "absent" THEN Some(app_top_k_default) ELSE None

request_top_k(f, tk) == IF f = "routes" THEN routes_top_k(tk) ELSE app_top_k(tk)

\* ------------------------------------------------------ RetrievalResult

\* retrieval.py RetrievalResult.__init__: num_results = len(chunks)
RetrievalResult(chunks) == [chunks |-> chunks, num_results |-> Len(chunks)]

\* dict.get(key, default)
dict_get(d, key, default) == IF key \in DOMAIN d THEN d[key] ELSE default

RECURSIVE sources_from(_, _, _)
sources_from(chunks, i, seen_urls) ==
    IF i > Len(chunks) THEN <<>>
    ELSE LET url == dict_get(chunks[i], "source", "") IN
         IF url # "" /\ url \notin seen_urls
         THEN <<[title |-> dict_get(chunks[i], "title", "Unknown"), url |-> url]>>
              \o sources_from(chunks, i + 1, seen_urls \cup {url})
         ELSE sources_from(chunks, i + 1, seen_urls)

\* get_sources() without its seen_urls test
get_sources_keeping_duplicates(chunks) ==
    LET with_url == SelectSeq(chunks, LAMBDA c : dict_get(c, "source", "") # "")
    IN  [i \in 1..Len(with_url) |->
            [title |-> dict_get(with_url[i], "title", "Unknown"),
             url |-> with_url[i].source]]

\* get_sources() listing the newest url first
get_sources_newest_first(chunks) ==
    LET sources == sources_from(chunks, 1, {})
    IN  [i \in 1..Len(sources) |-> sources[Len(sources) + 1 - i]]

\* retrieval.py RetrievalResult.get_sources
get_sources(chunks) == sources_from(chunks, 1, {})

RECURSIVE context_blocks(_, _)
context_blocks(chunks, i) ==
    IF i > Len(chunks) THEN ""
    ELSE (IF i > 1 THEN "\n\n---\n\n" ELSE "")
         \o "[Source " \o ToString(i) \o ": "
         \o dict_get(chunks[i], "title", "Unknown") \o "]\n"
         \o dict_get(chunks[i], "content", "")
         \o "\nURL: " \o dict_get(chunks[i], "source", "")
         \o context_blocks(chunks, i + 1)

\* a rendering that lists the newest record first
get_context_string_newest_first(chunks) ==
    IF chunks = <<>> THEN "No relevant information found."
    ELSE context_blocks([i \in 1..Len(chunks) |-> chunks[Len(chunks) + 1 - i]], 1)

\* a rendering without the test for an empty list
get_context_string_without_sentinel(chunks) == context_blocks(chunks, 1)

\* retrieval.py RetrievalResult.get_context_string
get_context_string(chunks) ==
    IF chunks = <<>> THEN "No relevant information found."
    ELSE context_blocks(chunks, 1)

\* ------------------------------------------------------ AlintaRetriever

\* retrieve(): k = top_k or settings.top_k_results (None and 0 are falsy)
top_k_or_default(top_k) ==
    IF top_k = None \/ top_k[1] = 0 THEN top_k_results ELSE top_k[1]

\* retrieve(): one raw hit to one chunk dict
format_chunk(hit) == [source |-> hit.url, title |-> hit.title, content |-> hit.content]

\* retrieve() without its guard on the query
retrieve_always_querying(query, top_k, index) ==
    LET k == top_k_or_default(top_k) IN
    [query_index_calls |-> 1, num_results_sent |-> Some(k), raised |-> None,
     result |-> Some(RetrievalResult(
         [i \in 1..Len(index.data_array) |-> format_chunk(index.data_array[i])]))]

\* retrieval.py AlintaRetriever.retrieve, given what the index does with the
\* query: the calls made to the index, the num_results sent, and either the
\* exception raised or the RetrievalResult returned
retrieve(query, top_k, index) ==
    IF query = <<>> \/ strip(query) = <<>>
    THEN [query_index_calls |-> 0, num_results_sent |-> None, raised |-> None,
          result |-> Some(RetrievalResult(<<>>))]
    ELSE LET k == top_k_or_default(top_k) IN
         IF index.raised
         THEN [query_index_calls |-> 1, num_results_sent |-> Some(k),
               raised |-> Some([stage |-> "retrieval",
                                message |-> "Failed to retrieve relevant content: " \o index.text]),
               result |-> None]
         ELSE [query_index_calls |-> 1, num_results_sent |-> Some(k), raised |-> None,
               result |-> Some(RetrievalResult(
                   [i \in 1..Len(index.data_array) |-> format_chunk(index.data_array[i])]))]

\* ------------------------------------------------------ AlintaGenerator

\* prompts.py SYSTEM_PROMPT (its first sentence stands for the whole text)
SYSTEM_PROMPT == "You are an AI assistant for Alinta Energy customers in Australia."

\* prompts.py create_rag_prompt: the f-string around context and query
create_rag_prompt(query, context) ==
    "**Context from Alinta Energy website:**\n\n" \o context
    \o "\n\n---\n\n**Customer question:** " \o query
    \o "\n\nPlease provide a helpful answer based on the context above."

\* databricks ChatMessage(role, content); the role is a ChatMessageRole
ChatMessage(role, content) == [role |-> role, content |-> content]

\* generate() keeping the oldest turns instead of the newest
recent_history_oldest(conversation_history) ==
    py_slice(conversation_history, 0, history_limit)

\* generate(): recent_history = conversation_history[-10:]
recent_history(conversation_history) ==
    py_slice(conversation_history, 0 - history_limit, Len(conversation_history))

\* a generate() that forwards the role a turn came with
chat_role_as_supplied(role) == role

\* generate(): USER if msg["role"] == "user" else ASSISTANT
chat_role(role) == IF role = "user" THEN "user" ELSE "assistant"

\* generate(): the messages built for the endpoint; a history that is None
\* or empty is falsy and adds nothing
build_messages(query, context, conversation_history) ==
    LET turns == IF conversation_history = None \/ conversation_history[1] = <<>>
                 THEN <<>>
                 ELSE recent_history(conversation_history[1])
    IN  <<ChatMessage("system", SYSTEM_PROMPT)>>
        \o [i \in 1..Len(turns) |-> ChatMessage(chat_role(turns[i].role), turns[i].content)]
        \o <<ChatMessage("user", create_rag_prompt(query, context))>>

\* one block of a structured content: a dict with or without the keys "type"
\* and "text", or something that is not a dict
Block(is_dict, type, text) == [is_dict |-> is_dict, type |-> type, text |-> text]

\* generate(): answer += block.get("text", "") over the dict blocks of type "text"
RECURSIVE text_blocks(_)
text_blocks(blocks) ==
    IF blocks = <<>> THEN ""
    ELSE LET block == Head(blocks) IN
         (IF block.is_dict /\ block.type = Some("text")
          THEN (IF block.text # None THEN block.text[1] ELSE "")
          ELSE "")
         \o text_blocks(Tail(blocks))

\* " ".join(strings)
RECURSIVE join_space(_)
join_space(strings) ==
    IF strings = <<>> THEN ""
    ELSE IF Len(strings) = 1 THEN strings[1]
    ELSE strings[1] \o " " \o join_space(Tail(strings))

HasText(block) == block.is_dict /\ block.text # None

\* generate(): the fallback, the "text" of every dict block that has the key
all_text_fields(blocks) ==
    LET with_text == SelectSeq(blocks, HasText)
    IN  join_space([i \in 1..Len(with_text) |-> with_text[i].text[1]])

\* the extraction without its fallback
extract_answer_text_blocks_only(content) ==
    IF content.kind = "list" THEN text_blocks(content.blocks) ELSE content.text

\* generate(): the answer extracted from message.content
extract_answer(content) ==
    IF content.kind = "list"
    THEN LET answer == text_blocks(content.blocks) IN
         IF answer = "" THEN all_text_fields(content.blocks) ELSE answer
    ELSE content.text

\* generation.py AlintaGenerator.generate, given what the endpoint does with
\* the completion: the messages sent, and the exception raised or the
\* GenerationResult returned
generate(query, context, conversation_history, llm) ==
    LET messages == build_messages(query, context, conversation_history) IN
    IF llm.raised
    THEN [messages |-> messages,
          raised |-> Some([stage |-> "generation",
                           message |-> "Failed to generate response: " \o llm.text]),
          result |-> None]
    ELSE [messages |-> messages,
          raised |-> None,
          result |-> Some([answer |-> extract_answer(llm.content),
                           metadata |-> [model |-> llm_model,
                                         tokens_used |-> llm.total_tokens,
                                         finish_reason |-> llm.finish_reason]])]

\* --------------------------------------------------------- RAGPipeline

\* {**a, **b}: the keys of both, b's value where both have the key
dict_merge(a, b) ==
    [key \in DOMAIN a \cup DOMAIN b |-> IF key \in DOMAIN b THEN b[key] ELSE a[key]]

\* answer_question lines 224-228: the answer returned without generating
no_context_response ==
    [answer |-> ERROR_MESSAGES.no_context,
     sources |-> <<>>,
     metadata |-> [retrieved_chunks |-> 0]]

\* an answer_question without the empty-context short cut
after_retrieve_no_short_cut(rr) ==
    IF rr.raised # None THEN [next |-> "raise", exc |-> rr.raised, value |-> None]
    ELSE [next |-> "generate", exc |-> None, value |-> None]

\* answer_question lines 219-228, after retriever.retrieve has come back:
\* re-raise, return the no-context answer, or go on to generate
after_retrieve(rr) ==
    IF rr.raised # None THEN [next |-> "raise", exc |-> rr.raised, value |-> None]
    ELSE IF rr.result[1].chunks = <<>>
         THEN [next |-> "return", exc |-> None, value |-> Some(no_context_response)]
         ELSE [next |-> "generate", exc |-> None, value |-> None]

\* a response that counts the de-duplicated sources instead of the records
compile_response_counting_sources(retrieval_result, generation_result) ==
    [answer |-> generation_result.answer,
     sources |-> get_sources(retrieval_result.chunks),
     metadata |-> dict_merge([retrieved_chunks |-> Len(get_sources(retrieval_result.chunks))],
                             generation_result.metadata)]

\* answer_question lines 241-248: the compiled response
compile_response(retrieval_result, generation_result) ==
    [answer |-> generation_result.answer,
     sources |-> get_sources(retrieval_result.chunks),
     metadata |-> dict_merge([retrieved_chunks |-> retrieval_result.num_results],
                             generation_result.metadata)]

\* answer_question lines 234-255, after generator.generate has come back
after_generate(retrieval_result, gr) ==
    IF gr.raised # None THEN [next |-> "raise", exc |-> gr.raised, value |-> None]
    ELSE [next |-> "return", exc |-> None,
          value |-> Some(compile_response(retrieval_result, gr.result[1]))]

\* ------------------------------------------------------------- responses

NoResponse == [status |-> 0, detail |-> "", body |-> None]

HTTPException(status_code, detail) ==
    [status |-> status_code, detail |-> detail, body |-> None]

\* FastAPI's answer to a body the request schema rejects: 422
RequestValidationError == HTTPException(422, "request validation failed")

service_unavailable ==
    HTTPException(HTTP_503_SERVICE_UNAVAILABLE,
                  "Service is initializing. Please try again in a moment.")

empty_question ==
    HTTPException(HTTP_400_BAD_REQUEST, "Question cannot be empty")

\* chat(): the except clause around the pipeline run
routes_chat_failure(exc) ==
    HTTPException(HTTP_500_INTERNAL_SERVER_ERROR, ERROR_MESSAGES.generation_failed)

app_chat_failure(exc) ==
    HTTPException(HTTP_500_INTERNAL_SERVER_ERROR,
                  "Failed to process your question. Please try again.")

\* a handler that hands the exception's message to the client
chat_failure_leaking(f, exc) ==
    HTTPException(HTTP_500_INTERNAL_SERVER_ERROR, exc.message)

chat_failure(f, exc) ==
    IF f = "routes" THEN routes_chat_failure(exc) ELSE app_chat_failure(exc)

\* chat(): ChatResponse(answer, sources, metadata) of the pipeline's result
ChatResponse(result) == [status |-> 200, detail |-> "", body |-> Some(result)]

\* ------------------------------------------------------------- requests

\* no direct call of a library function has been made
IdleUnit == [op |-> "idle", input |-> <<>>, output |-> <<>>]

IdleRequest ==
    [pc |-> "idle", kind |-> "", question |-> <<>>, body_top_k |-> <<"absent">>,
     query |-> <<>>, top_k |-> None,
     answer_question_calls |-> 0, retrieve_calls |-> 0, query_index_calls |-> 0,
     generate_calls |-> 0, num_results_sent |-> None,
     retrieval |-> None, generation |-> None, run |-> "none",
     exc |-> None, result |-> None, response |-> NoResponse,
     probes |-> <<>>, health_checks |-> None, conversation_history |-> <<>>,
     pipeline_available |-> FALSE, index_response |-> None, llm_response |-> None,
     served_with_others |-> FALSE]

new_chat(q, tk) ==
    [IdleRequest EXCEPT !.kind = "chat", !.question = q, !.body_top_k = tk]

respond(request, response) ==
    [request EXCEPT !.pc = "done", !.response = response]

\* a chat() that forgets to strip the question before testing it
stripped_question_unstripped(q) == q

\* chat(): question = request.question.strip()
stripped_question(q) == strip(q)

\* a chat() without the test for a missing pipeline
routes_pipeline_ready_unchecked(pipeline) == TRUE

\* routes.py chat(): `if not rag_pipeline`
routes_pipeline_ready(pipeline) == pipeline # None

\* a chat() that looks at the question before it looks at the pipeline
chat_entry_question_first(f, q, tk, available) ==
    LET question == stripped_question(q) IN
    IF question = <<>> THEN respond(new_chat(q, tk), empty_question)
    ELSE IF ~available THEN respond(new_chat(q, tk), service_unavailable)
    ELSE [new_chat(q, tk) EXCEPT
             !.pc = "retrieving", !.query = question,
             !.top_k = request_top_k(f, tk),
             !.answer_question_calls = 1, !.run = "running"]

\* chat() up to the call of answer_question, given whether a pipeline is there:
\* 503 without a pipeline, 400 for a blank question, else the run starts
chat_entry(f, q, tk, available) ==
    IF ~available THEN respond(new_chat(q, tk), service_unavailable)
    ELSE LET question == stripped_question(q) IN
         IF question = <<>> THEN respond(new_chat(q, tk), empty_question)
         ELSE [new_chat(q, tk) EXCEPT
                  !.pc = "retrieving", !.query = question,
                  !.top_k = request_top_k(f, tk),
                  !.answer_question_calls = 1, !.run = "running"]

\* chat(): history = None unless request.conversation_history is non-empty
history_argument(conversation_history) ==
    IF conversation_history = <<>> THEN None
    ELSE Some([i \in 1..Len(conversation_history) |->
                  [role |-> conversation_history[i].role,
                   content |-> conversation_history[i].content]])

\* the request as received, with the conversation_history of its body
with_history(request, conversation_history) ==
    [request EXCEPT !.conversation_history = conversation_history]

\* history: another request is between its retrieval and its answer
others_in_flight(r) ==
    \E o \in Requests \ {r} : req[o].pc \in {"retrieving", "generating"}

\* the request with what its handler found when it looked for the pipeline
with_pipeline(request, available) ==
    [request EXCEPT !.pipeline_available = available]

\* chat() once answer_question has raised or returned
chat_exit(f, request, step) ==
    IF step.next = "raise"
    THEN respond([request EXCEPT !.run = "failed", !.exc = step.exc],
                 chat_failure(f, step.exc[1]))
    ELSE respond([request EXCEPT !.run = "completed", !.result = step.value],
                 ChatResponse(step.value[1]))

\* history: when a slot takes its next request, the failure its last run
\* ended with, if it ended with one, is kept
archived(request) ==
    IF request.exc # None
    THEN Some(<<request.exc[1].stage, request.exc[1].message, request.response>>)
    ELSE last_error

\* ------------------------------------------------ app.py get_rag_pipeline

\* what the setup of the clients does: it succeeds or raises with a text
SetupOutcomes == {"ok"} \cup ExcTexts

\* a get_rag_pipeline that does not look at the cached error and runs the
\* setup again after a failure
get_rag_pipeline_retrying(returned) ==
    /\ pipeline_calls' = IF pipeline_calls < MaxCallsCounted
                         THEN pipeline_calls + 1 ELSE pipeline_calls
    /\ IF _rag_pipeline # None
       THEN /\ returned
            /\ pipeline_log' = pipeline_log \cup {<<"returned", _rag_pipeline[1]>>}
            /\ UNCHANGED <<_rag_pipeline, _initialization_error, init_attempts>>
       ELSE \E setup \in SetupOutcomes :
            /\ init_attempts' = init_attempts + 1
            /\ IF setup = "ok"
               THEN /\ returned
                    /\ _rag_pipeline' = Some(init_attempts + 1)
                    /\ pipeline_log' = pipeline_log \cup {<<"returned", init_attempts + 1>>}
                    /\ UNCHANGED _initialization_error
               ELSE /\ ~returned
                    /\ _initialization_error' = Some(setup)
                    /\ pipeline_log' = pipeline_log \cup {<<"raised", setup>>}
                    /\ UNCHANGED _rag_pipeline

\* a get_rag_pipeline that raises the cached error once and then forgets it
get_rag_pipeline_forgetting_error(returned) ==
    /\ pipeline_calls' = IF pipeline_calls < MaxCallsCounted
                         THEN pipeline_calls + 1 ELSE pipeline_calls
    /\ IF _rag_pipeline # None
       THEN /\ returned
            /\ pipeline_log' = pipeline_log \cup {<<"returned", _rag_pipeline[1]>>}
            /\ UNCHANGED <<_rag_pipeline, _initialization_error, init_attempts>>
       ELSE IF _initialization_error # None
       THEN /\ ~returned
            /\ pipeline_log' = pipeline_log \cup {<<"raised", _initialization_error[1]>>}
            /\ _initialization_error' = None
            /\ UNCHANGED <<_rag_pipeline, init_attempts>>
       ELSE \E setup \in SetupOutcomes :
            /\ init_attempts' = init_attempts + 1
            /\ IF setup = "ok"
               THEN /\ returned
                    /\ _rag_pipeline' = Some(init_attempts + 1)
                    /\ pipeline_log' = pipeline_log \cup {<<"returned", init_attempts + 1>>}
                    /\ UNCHANGED _initialization_error
               ELSE /\ ~returned
                    /\ _initialization_error' = Some(setup)
                    /\ pipeline_log' = pipeline_log \cup {<<"raised", setup>>}
                    /\ UNCHANGED _rag_pipeline

\* app.py get_rag_pipeline; returned is TRUE when it returns the pipeline and
\* FALSE when it raises. A pipeline object is named by the setup run that
\* made it.
get_rag_pipeline(returned) ==
    /\ pipeline_calls' = IF pipeline_calls < MaxCallsCounted
                         THEN pipeline_calls + 1 ELSE pipeline_calls
    /\ IF _rag_pipeline # None
       THEN /\ returned
            /\ pipeline_log' = pipeline_log \cup {<<"returned", _rag_pipeline[1]>>}
            /\ UNCHANGED <<_rag_pipeline, _initialization_error, init_attempts>>
       ELSE IF _initialization_error # None
       THEN /\ ~returned
            /\ pipeline_log' = pipeline_log \cup {<<"raised", _initialization_error[1]>>}
            /\ UNCHANGED <<_rag_pipeline, _initialization_error, init_attempts>>
       ELSE \E setup \in SetupOutcomes :
            /\ init_attempts' = init_attempts + 1
            /\ IF setup = "ok"
               THEN /\ returned
                    /\ _rag_pipeline' = Some(init_attempts + 1)
                    /\ pipeline_log' = pipeline_log \cup {<<"returned", init_attempts + 1>>}
                    /\ UNCHANGED _initialization_error
               ELSE /\ ~returned
                    /\ _initialization_error' = Some(setup)
                    /\ pipeline_log' = pipeline_log \cup {<<"raised", setup>>}
                    /\ UNCHANGED _rag_pipeline

\* ---------------------------------------------------------- /api/health

\* what the index does with the health probe, and the endpoint with its probe
IndexProbes == {"ok", "raises"}
LlmProbes == {"content", "no content", "no choices", "raises"}

\* a health_check() that lets the client's exception out
retriever_health_check_propagating(probe) ==
    [raised |-> probe = "raises", value |-> probe = "ok"]

\* retrieval.py AlintaRetriever.health_check: True, or False on any exception;
\* the outcome is whether the call raised and what it returned
retriever_health_check(probe) == [raised |-> FALSE, value |-> probe = "ok"]

\* generation.py AlintaGenerator.health_check: content is not None, or False
\* on any exception (the endpoint raising, choices[0] of no choices)
generator_health_check(probe) == [raised |-> FALSE, value |-> probe = "content"]

\* the handlers' try: ... except: False around each health_check()
guarded(check) == IF check.raised THEN FALSE ELSE check.value

\* any(components.values())
any_values(components) == \E c \in DOMAIN components : components[c]

\* all(components.values())
all_values(components) == \A c \in DOMAIN components : components[c]

HealthResponse(overall_healthy, components) ==
    [status |-> 200, detail |-> "",
     body |-> Some([status |-> IF overall_healthy THEN "healthy" ELSE "degraded",
                    components |-> components])]

\* the health_check() calls a handler makes once it has its components
health_checks(index_probe, llm_probe) ==
    [vector_search |-> retriever_health_check(index_probe),
     llm |-> generator_health_check(llm_probe)]

\* routes.py health(): retriever, generator and rag_pipeline are all set or
\* all None
routes_health(pipeline, index_probe, llm_probe) ==
    LET checks == health_checks(index_probe, llm_probe)
        components ==
            [vector_search |-> IF pipeline # None
                               THEN guarded(checks.vector_search) ELSE FALSE,
             llm |-> IF pipeline # None THEN guarded(checks.llm) ELSE FALSE]
    IN  HealthResponse(all_values(components) /\ pipeline # None, components)

\* app.py health(), given whether get_rag_pipeline returned
app_health(returned, index_probe, llm_probe) ==
    LET checks == health_checks(index_probe, llm_probe)
        components ==
            IF returned
            THEN [rag_pipeline |-> TRUE,
                  vector_search |-> guarded(checks.vector_search),
                  llm |-> guarded(checks.llm)]
            ELSE [rag_pipeline |-> FALSE, vector_search |-> FALSE, llm |-> FALSE]
    IN  HealthResponse(all_values(components), components)

\* a health request: the probes' behaviour and, when the components exist,
\* the outcome of their health_check() calls
new_health(available, index_probe, llm_probe) ==
    [IdleRequest EXCEPT !.kind = "health",
                        !.probes = <<index_probe, llm_probe>>,
                        !.health_checks = IF available
                                          THEN Some(health_checks(index_probe, llm_probe))
                                          ELSE None]

\* ------------------------------------------------------------- chunk_text

\* A text is a sequence of tokens: 0 is one whitespace character and a
\* positive n is the n-th word, a run of characters without whitespace.
IsWord(token) == token # 0

\* str.split(): the words, whitespace dropped
split(text) == SelectSeq(text, IsWord)

\* len(text.strip()) == 0
is_blank(text) == split(text) = <<>>

RECURSIVE join(_)
\* ' '.join(words)
join(words) ==
    IF Len(words) <= 1 THEN words
    ELSE <<Head(words), 0>> \o join(Tail(words))

\* the texts chunk_text is called with: w words, single-spaced, padded with
\* whitespace at both ends, or double-spaced
spaced(w, layout) ==
    LET gap == IF layout = "double" THEN <<0, 0>> ELSE <<0>>
        body[i \in 0..w] ==
            IF i = 0 THEN <<>>
            ELSE IF i = 1 THEN <<1>> ELSE body[i - 1] \o gap \o <<i>>
    IN  IF layout = "padded" THEN <<0>> \o body[w] \o <<0>> ELSE body[w]

Texts == {spaced(w, layout) : w \in 0..MaxWords, layout \in {"single", "padded", "double"}}

IdleChunker ==
    [pc |-> "idle", text |-> <<>>, chunk_size |-> 1, overlap |-> 0, MIN_CHUNK_SIZE |-> 1,
     words |-> <<>>, start_idx |-> 0, chunks |-> <<>>, iterations |-> 0]

\* a chunk_text that returns a short text with its whitespace normalised
chunk_text_entry_rejoined(text, chunk_size, overlap, min_size) ==
    LET call == [IdleChunker EXCEPT !.text = text, !.chunk_size = chunk_size,
                                    !.overlap = overlap, !.MIN_CHUNK_SIZE = min_size]
        words == split(text)
    IN  IF text = <<>> \/ is_blank(text) THEN [call EXCEPT !.pc = "returned"]
        ELSE IF Len(words) <= chunk_size
        THEN [call EXCEPT !.pc = "returned", !.words = words,
                          !.chunks = IF Len(words) >= min_size
                                     THEN <<join(words)>> ELSE <<>>]
        ELSE [call EXCEPT !.pc = "loop", !.words = words]

\* chunk_text lines 53-63: up to the sliding loop
chunk_text_entry(text, chunk_size, overlap, min_size) ==
    LET call == [IdleChunker EXCEPT !.text = text, !.chunk_size = chunk_size,
                                    !.overlap = overlap, !.MIN_CHUNK_SIZE = min_size]
        words == split(text)
    IN  IF text = <<>> \/ is_blank(text) THEN [call EXCEPT !.pc = "returned"]
        ELSE IF Len(words) <= chunk_size
        THEN [call EXCEPT !.pc = "returned", !.words = words,
                          !.chunks = IF Len(words) >= min_size THEN <<text>> ELSE <<>>]
        ELSE [call EXCEPT !.pc = "loop", !.words = words]

\* a loop that leaves after the last full window
chunk_text_iteration_full_windows(c) ==
    IF ~(c.start_idx < Len(c.words)) THEN [c EXCEPT !.pc = "returned"]
    ELSE LET end_idx == c.start_idx + c.chunk_size
             chunk_words == py_slice(c.words, c.start_idx, end_idx)
         IN  [c EXCEPT
                !.chunks = IF Len(chunk_words) >= c.MIN_CHUNK_SIZE
                           THEN Append(@, join(chunk_words)) ELSE @,
                !.start_idx = @ + (c.chunk_size - c.overlap),
                !.iterations = @ + 1,
                !.pc = IF end_idx + (c.chunk_size - c.overlap) > Len(c.words)
                       THEN "returned" ELSE "loop"]

\* a loop that keeps every window, however short
chunk_text_iteration_keeping_short(c) ==
    IF ~(c.start_idx < Len(c.words)) THEN [c EXCEPT !.pc = "returned"]
    ELSE LET end_idx == c.start_idx + c.chunk_size
             chunk_words == py_slice(c.words, c.start_idx, end_idx)
         IN  [c EXCEPT
                !.chunks = Append(@, join(chunk_words)),
                !.start_idx = @ + (c.chunk_size - c.overlap),
                !.iterations = @ + 1,
                !.pc = IF end_idx >= Len(c.words) THEN "returned" ELSE "loop"]

\* a loop that advances by a whole window, so that chunks share no word
chunk_text_iteration_without_overlap(c) ==
    IF ~(c.start_idx < Len(c.words)) THEN [c EXCEPT !.pc = "returned"]
    ELSE LET end_idx == c.start_idx + c.chunk_size
             chunk_words == py_slice(c.words, c.start_idx, end_idx)
         IN  [c EXCEPT
                !.chunks = IF Len(chunk_words) >= c.MIN_CHUNK_SIZE
                           THEN Append(@, join(chunk_words)) ELSE @,
                !.start_idx = @ + c.chunk_size,
                !.iterations = @ + 1,
                !.pc = IF end_idx >= Len(c.words) THEN "returned" ELSE "loop"]

\* a loop without the break, left only by the while condition
chunk_text_iteration_without_break(c) ==
    IF ~(c.start_idx < Len(c.words)) THEN [c EXCEPT !.pc = "returned"]
    ELSE LET end_idx == c.start_idx + c.chunk_size
             chunk_words == py_slice(c.words, c.start_idx, end_idx)
         IN  [c EXCEPT
                !.chunks = IF Len(chunk_words) >= c.MIN_CHUNK_SIZE
                           THEN Append(@, join(chunk_words)) ELSE @,
                !.start_idx = @ + (c.chunk_size - c.overlap),
                !.iterations = @ + 1]

\* a loop that never moves its window
chunk_text_iteration_not_advancing(c) ==
    IF ~(c.start_idx < Len(c.words)) THEN [c EXCEPT !.pc = "returned"]
    ELSE LET end_idx == c.start_idx + c.chunk_size
             chunk_words == py_slice(c.words, c.start_idx, end_idx)
         IN  [c EXCEPT
                !.chunks = IF Len(chunk_words) >= c.MIN_CHUNK_SIZE
                           THEN Append(@, join(chunk_words)) ELSE @,
                !.iterations = @ + 1,
                !.pc = IF end_idx >= Len(c.words) THEN "returned" ELSE "loop"]

\* chunk_text lines 65-82: the loop test and one pass of the loop body
chunk_text_iteration(c) ==
    IF ~(c.start_idx < Len(c.words)) THEN [c EXCEPT !.pc = "returned"]
    ELSE LET end_idx == c.start_idx + c.chunk_size
             chunk_words == py_slice(c.words, c.start_idx, end_idx)
         IN  [c EXCEPT
                !.chunks = IF Len(chunk_words) >= c.MIN_CHUNK_SIZE
                           THEN Append(@, join(chunk_words)) ELSE @,
                !.start_idx = @ + (c.chunk_size - c.overlap),
                !.iterations = @ + 1,
                !.pc = IF end_idx >= Len(c.words) THEN "returned" ELSE "loop"]


\* ------------------------------------------------------------- actions

Init ==
    /\ facade \in Facades
    /\ rag_pipeline \in (IF facade = "routes" THEN {None, Some(1)} ELSE {None})
    /\ _rag_pipeline = None
    /\ _initialization_error = None
    /\ init_attempts = 0
    /\ pipeline_log = {}
    /\ pipeline_calls = 0
    /\ last_error = None
    /\ req = [r \in Requests |-> IdleRequest]
    /\ chunker = IdleChunker
    /\ unit = IdleUnit

\* POST /api/chat arrives: the handler runs up to its call of answer_question
Chat(r) ==
    /\ req[r].pc \in {"idle", "done"}
    /\ \E q \in Questions, tk \in TopKInputs, h \in RequestHistories :
         IF ~ChatRequest_valid(facade, q, tk)
         THEN /\ req' = [req EXCEPT ![r] =
                            with_history(respond(new_chat(q, tk), RequestValidationError), h)]
              /\ UNCHANGED <<_rag_pipeline, _initialization_error, init_attempts,
                             pipeline_log, pipeline_calls>>
         ELSE IF facade = "routes"
         THEN /\ req' = [req EXCEPT ![r] =
                            with_pipeline(
                                with_history(chat_entry(facade, q, tk,
                                                        routes_pipeline_ready(rag_pipeline)), h),
                                routes_pipeline_ready(rag_pipeline))]
              /\ UNCHANGED <<_rag_pipeline, _initialization_error, init_attempts,
                             pipeline_log, pipeline_calls>>
         ELSE \E returned \in BOOLEAN :
              /\ get_rag_pipeline(returned)
              /\ req' = [req EXCEPT ![r] =
                            with_pipeline(
                                with_history(chat_entry(facade, q, tk, returned), h),
                                returned)]
    /\ last_error' = archived(req[r])
    /\ UNCHANGED <<facade, rag_pipeline, chunker, unit>>

\* an answer_question that calls the retriever again when it raises
RetrieveWithRetry(r) ==
    /\ req[r].pc = "retrieving"
    /\ \E index \in IndexOutcomes :
         LET rr == retrieve(req[r].query, req[r].top_k, index)
             step == after_retrieve(rr)
             called == [req[r] EXCEPT
                           !.retrieve_calls = @ + 1,
                           !.query_index_calls = @ + rr.query_index_calls,
                           !.num_results_sent = rr.num_results_sent,
                           !.retrieval = rr.result,
                           !.index_response = Some(index),
                           !.served_with_others = @ \/ others_in_flight(r)]
         IN  IF step.next = "raise"
             THEN req' = [req EXCEPT ![r] = called]
             ELSE IF step.next = "generate"
             THEN req' = [req EXCEPT ![r] = [called EXCEPT !.pc = "generating"]]
             ELSE req' = [req EXCEPT ![r] = chat_exit(facade, called, step)]
    /\ UNCHANGED <<facade, rag_pipeline, _rag_pipeline, _initialization_error,
                   init_attempts, pipeline_log, pipeline_calls, last_error, chunker,
                   unit>>

\* answer_question calls retriever.retrieve and acts on what comes back
Retrieve(r) ==
    /\ req[r].pc = "retrieving"
    /\ \E index \in IndexOutcomes :
         LET rr == retrieve(req[r].query, req[r].top_k, index)
             step == after_retrieve(rr)
             called == [req[r] EXCEPT
                           !.retrieve_calls = @ + 1,
                           !.query_index_calls = @ + rr.query_index_calls,
                           !.num_results_sent = rr.num_results_sent,
                           !.retrieval = rr.result,
                           !.index_response = Some(index),
                           !.served_with_others = @ \/ others_in_flight(r)]
         IN  IF step.next = "generate"
             THEN req' = [req EXCEPT ![r] = [called EXCEPT !.pc = "generating"]]
             ELSE req' = [req EXCEPT ![r] = chat_exit(facade, called, step)]

    /\ UNCHANGED <<facade, rag_pipeline, _rag_pipeline, _initialization_error,
                   init_attempts, pipeline_log, pipeline_calls, last_error, chunker,
                   unit>>

\* an orchestrator that keeps the latest retrieval on the shared pipeline
\* object and reads it back from there
retrieval_result_of_any_request(r) ==
    IF \E o \in Requests \ {r} : req[o].retrieval # None
    THEN req[CHOOSE o \in Requests \ {r} : req[o].retrieval # None].retrieval[1]
    ELSE req[r].retrieval[1]

\* answer_question: its local retrieval_result
retrieval_result(r) == req[r].retrieval[1]

\* answer_question calls generator.generate and acts on what comes back
Generate(r) ==
    /\ req[r].pc = "generating"
    /\ \E llm \in LlmOutcomes :
         LET gr == generate(str_of(req[r].query),
                            get_context_string(retrieval_result(r).chunks),
                            history_argument(req[r].conversation_history), llm)
             step == after_generate(retrieval_result(r), gr)
             called == [req[r] EXCEPT !.generate_calls = @ + 1,
                                      !.generation = gr.result,
                                      !.llm_response = Some(llm),
                                      !.served_with_others = @ \/ others_in_flight(r)]
         IN  req' = [req EXCEPT ![r] = chat_exit(facade, called, step)]

    /\ UNCHANGED <<facade, rag_pipeline, _rag_pipeline, _initialization_error,
                   init_attempts, pipeline_log, pipeline_calls, last_error, chunker,
                   unit>>

\* GET /api/health: the whole handler
Health(r) ==
    /\ req[r].pc \in {"idle", "done"}
    /\ \E index_probe \in IndexProbes, llm_probe \in LlmProbes :
         IF facade = "routes"
         THEN /\ req' = [req EXCEPT ![r] =
                            respond(new_health(rag_pipeline # None, index_probe, llm_probe),
                                    routes_health(rag_pipeline, index_probe, llm_probe))]
              /\ UNCHANGED <<_rag_pipeline, _initialization_error, init_attempts,
                             pipeline_log, pipeline_calls>>
         ELSE \E returned \in BOOLEAN :
              /\ get_rag_pipeline(returned)
              /\ req' = [req EXCEPT ![r] =
                            respond(new_health(returned, index_probe, llm_probe),
                                    app_health(returned, index_probe, llm_probe))]
    /\ last_error' = archived(req[r])
    /\ UNCHANGED <<facade, rag_pipeline, chunker, unit>>

Next ==
    \E r \in Serial : Chat(r) \/ Retrieve(r) \/ Generate(r) \/ Health(r)

Spec == Init /\ [][Next]_vars

\* ------------------------------------------- two requests in flight

\* what the index answers while two requests are in flight: it raises, finds
\* nothing, or finds one of two pages
ConcurrentIndexOutcomes ==
    {o \in IndexOutcomes :
        IF o.raised THEN o.text = "connection refused"
        ELSE Len(o.data_array) <= 1
             /\ \A i \in 1..Len(o.data_array) : o.data_array[i].title = "t1"}

\* what the endpoint answers while two requests are in flight
ConcurrentLlmOutcomes ==
    {o \in LlmOutcomes :
        IF o.raised THEN o.text = "connection refused" ELSE o.total_tokens = None}

\* a chat request with a question, or a blank one, and no more in its body
ConcurrentChat(r) ==
    /\ Chat(r)
    /\ req'[r].question \in {<<" ">>, <<"q">>}
    /\ req'[r].body_top_k = <<"absent">>
    /\ req'[r].conversation_history = <<>>

ConcurrentRetrieve(r) ==
    /\ Retrieve(r)
    /\ req'[r].index_response[1] \in ConcurrentIndexOutcomes

ConcurrentGenerate(r) ==
    /\ Generate(r)
    /\ req'[r].llm_response[1] \in ConcurrentLlmOutcomes

ConcurrentHealth(r) ==
    /\ Health(r)
    /\ req'[r].probes = <<"ok", "content">>

\* the steps of the requests in the two slots, interleaved in any order
ConcurrentNext ==
    \E r \in Requests :
        ConcurrentChat(r) \/ ConcurrentRetrieve(r) \/ ConcurrentGenerate(r)
            \/ ConcurrentHealth(r)

SpecConcurrent == Init /\ [][ConcurrentNext]_vars

\* ------------------------------------------------ the chunker's actions

ChunkInit ==
    /\ facade = "app"
    /\ rag_pipeline = None
    /\ _rag_pipeline = None
    /\ _initialization_error = None
    /\ init_attempts = 0
    /\ pipeline_log = {}
    /\ pipeline_calls = 0
    /\ last_error = None
    /\ req = [r \in Requests |-> IdleRequest]
    /\ chunker = IdleChunker
    /\ unit = IdleUnit

\* chunk_text(text, chunk_size, overlap) is called
ChunkCall ==
    /\ chunker.pc = "idle"
    /\ \E text \in Texts, chunk_size \in 1..MaxChunkSize,
          overlap \in 0..(MaxChunkSize + 1), min_size \in 1..MaxChunkSize :
         chunker' = chunk_text_entry(text, chunk_size, overlap, min_size)
    /\ UNCHANGED <<service_vars, unit>>

\* the while loop takes one more turn
ChunkLoop ==
    /\ chunker.pc = "loop"
    /\ chunker.iterations < MaxIterations
    /\ chunker' = chunk_text_iteration(chunker)
    /\ UNCHANGED <<service_vars, unit>>

ChunkNext == ChunkCall \/ ChunkLoop

SpecChunk == ChunkInit /\ [][ChunkNext]_vars

\* a call that is running goes on running: the interpreter takes the next
\* pass of the loop
SpecChunkLive == ChunkInit /\ [][ChunkNext]_vars /\ WF_vars(ChunkLoop)

\* ------------------------------------------- direct calls of the library

\* queries a caller may hand to retrieve(): the questions and a longer blank
Queries == Questions \cup {<<" ", " ">>}

\* top_k arguments of retrieve(): None, 0, an integer
TopKArguments == {None, Some(0), Some(2)}

\* records a caller may hand to RetrievalResult: pages a, b, c, page a under a
\* second title, an empty url, a record without "source", one without "title"
SourceRecords ==
    {[source |-> "a", title |-> "t1"], [source |-> "a", title |-> "t2"],
     [source |-> "b", title |-> "t1"], [source |-> "c", title |-> "t1"],
     [source |-> "", title |-> "t1"], [title |-> "t1"], [source |-> "a"]}

UnitInit ==
    /\ facade = "app"
    /\ rag_pipeline = None
    /\ _rag_pipeline = None
    /\ _initialization_error = None
    /\ init_attempts = 0
    /\ pipeline_log = {}
    /\ pipeline_calls = 0
    /\ last_error = None
    /\ req = [r \in Requests |-> IdleRequest]
    /\ chunker = IdleChunker
    /\ unit = IdleUnit

\* the role of the i-th turn of a history: user and assistant in turn, or a
\* history that also holds roles the schema does not restrict
turn_role(i, pattern) ==
    IF pattern = "alternating" THEN (IF i % 2 = 1 THEN "user" ELSE "assistant")
    ELSE (IF i % 3 = 1 THEN "system" ELSE IF i % 3 = 2 THEN "user" ELSE "tool")

\* a history of n turns, oldest first, each turn with its own content
history_of(n, pattern) ==
    [i \in 1..n |-> [role |-> turn_role(i, pattern), content |-> "turn " \o ToString(i)]]

\* conversation_history arguments of generate(): None, or a list of turns
HistoryArguments ==
    {None} \cup {Some(history_of(n, pattern)) :
                    n \in 0..MaxHistory, pattern \in {"alternating", "any role"}}

QueryStrings == {"q1", "q2"}

ContextStrings == {"[Source 1: t1]\ntext\nURL: a", "No relevant information found."}

\* the blocks a structured content may hold
BlockInputs ==
    {Block(TRUE, type, text) :
        type \in {Some("text"), Some("reasoning")},
        text \in {None, Some(""), Some("x"), Some("y")}}
    \cup {Block(FALSE, None, None)}

\* message.content of a completion: plain strings and lists of blocks
ContentInputs ==
    {PlainText(text) : text \in {"", "answer"}}
    \cup {Blocks(blocks) : blocks \in SeqsUpTo(BlockInputs, MaxBlocks)}

\* generator.generate(query, context, conversation_history) is called directly
CallGenerate ==
    /\ unit.op = "idle"
    /\ \E query \in QueryStrings, context \in ContextStrings,
          conversation_history \in HistoryArguments, llm \in LlmOutcomes :
         unit' = [op |-> "generate",
                  input |-> [query |-> query, context |-> context,
                             conversation_history |-> conversation_history,
                             llm |-> llm],
                  output |-> generate(query, context, conversation_history, llm)]
    /\ UNCHANGED <<service_vars, chunker>>

\* generator.generate(query, context) is called and the endpoint answers with
\* one of the contents
CallGenerateContent ==
    /\ unit.op = "idle"
    /\ \E query \in QueryStrings, content \in ContentInputs :
         LET llm == [raised |-> FALSE, text |-> "", content |-> content,
                     total_tokens |-> None, finish_reason |-> "stop"]
             context == "No relevant information found."
         IN  unit' = [op |-> "generate",
                      input |-> [query |-> query, context |-> context,
                                 conversation_history |-> None, llm |-> llm],
                      output |-> generate(query, context, None, llm)]
    /\ UNCHANGED <<service_vars, chunker>>

\* records a caller may hand to RetrievalResult for rendering: two pages, a
\* second passage of the first page, and a record with none of the keys read
ContextRecords ==
    {[source |-> "a", title |-> "t1", content |-> "c1"],
     [source |-> "a", title |-> "t1", content |-> "c2"],
     [source |-> "b", title |-> "t2", content |-> "c3"],
     [chunk_id |-> "x"]}

\* RetrievalResult(chunks, query) is built and both get_context_string() and
\* get_sources() are called on it, as answer_question does
CallResultMethods ==
    /\ unit.op = "idle"
    /\ \E chunks \in SeqsUpTo(ContextRecords, MaxSources) :
         unit' = [op |-> "RetrievalResult",
                  input |-> RetrievalResult(chunks),
                  output |-> [context |-> get_context_string(chunks),
                              sources |-> get_sources(chunks)]]
    /\ UNCHANGED <<service_vars, chunker>>

\* retriever.retrieve(query, top_k) is called directly, as the tests do
CallRetrieve ==
    /\ unit.op = "idle"
    /\ \E query \in Queries, top_k \in TopKArguments, index \in IndexOutcomes :
         unit' = [op |-> "retrieve",
                  input |-> [query |-> query, top_k |-> top_k],
                  output |-> retrieve(query, top_k, index)]
    /\ UNCHANGED <<service_vars, chunker>>

\* RetrievalResult(chunks, query).get_sources() is called
CallGetSources ==
    /\ unit.op = "idle"
    /\ \E chunks \in SeqsUpTo(SourceRecords, MaxSources) :
         unit' = [op |-> "get_sources",
                  input |-> RetrievalResult(chunks),
                  output |-> get_sources(chunks)]
    /\ UNCHANGED <<service_vars, chunker>>

UnitNext ==
    CallRetrieve \/ CallGetSources \/ CallResultMethods \/ CallGenerate \/ CallGenerateContent

SpecUnit == UnitInit /\ [][UnitNext]_vars

\* ================================================================ claims

IsChat(r) == req[r].kind = "chat" /\ req[r].pc # "idle"

Answered(r) == IsChat(r) /\ req[r].pc = "done"

Blank(q) == strip(q) = <<>>

NoOrchestratorCall(r) ==
    /\ req[r].answer_question_calls = 0
    /\ req[r].retrieve_calls = 0
    /\ req[r].query_index_calls = 0
    /\ req[r].generate_calls = 0

\* the clients of the serving application failed to initialize
InitFailed ==
    IF facade = "routes" THEN rag_pipeline = None ELSE _initialization_error # None

\* the request body does not pass the schema of api/models.py
RoutesSchemaRejects(r) ==
    /\ facade = "routes"
    /\ \/ Len(req[r].question) < 1
       \/ Len(req[r].question) > 1000
       \/ /\ req[r].body_top_k[1] = "int"
          /\ (req[r].body_top_k[2] < 1 \/ req[r].body_top_k[2] > 10)

\* C1 as stated: every chat request with an empty or blank question is
\* answered 400 and the orchestrator is never invoked for it.
C1_BlankQuestionIs400 ==
    \A r \in Requests :
        (Answered(r) /\ Blank(req[r].question)) =>
            (req[r].response.status = 400 /\ NoOrchestratorCall(r))

\* C1 amended: a chat request with an empty or blank question never invokes
\* the orchestrator, the retriever or the generator, and it is answered at
\* once: 422 when the routes.py schema rejects the body (a zero-length
\* question, a top_k outside 1..10), else 503 when the pipeline is not
\* initialized, else 400.
C1_BlankQuestionNeverRuns ==
    \A r \in Requests :
        (IsChat(r) /\ Blank(req[r].question)) =>
            /\ req[r].pc = "done"
            /\ NoOrchestratorCall(r)
            /\ req[r].response.body = None
            /\ req[r].response.status =
                  IF RoutesSchemaRejects(r) THEN 422
                  ELSE IF InitFailed THEN 503 ELSE 400

\* C1 witness: a whitespace-only question answered 400 by an initialized
\* service.
C1_Witness ==
    \E r \in Requests :
        /\ Answered(r)
        /\ req[r].question = <<" ">>
        /\ ~InitFailed
        /\ req[r].response.status = 400
        /\ NoOrchestratorCall(r)

\* C2 as stated: when the retriever raises, the response is a 500 whose
\* detail is the retrieval-failure message, which is neither the
\* generation-failure message nor the exception's text.
C2_RetrievalFailureMessage ==
    \A r \in Requests :
        (IsChat(r) /\ req[r].exc # None /\ req[r].exc[1].stage = "retrieval") =>
            /\ req[r].response.status = 500
            /\ req[r].response.detail = ERROR_MESSAGES.retrieval_failed
            /\ req[r].response.detail # ERROR_MESSAGES.generation_failed
            /\ req[r].response.detail # req[r].exc[1].message

\* the retriever came back to answer_question with zero records
RetrievedNothing(r) ==
    /\ IsChat(r)
    /\ req[r].retrieve_calls >= 1
    /\ req[r].retrieval # None
    /\ Len(req[r].retrieval[1].chunks) = 0

\* C3: when the retriever returns zero records, answer_question completes
\* without calling the generator and returns the fixed no-context answer,
\* no sources and the metadata {retrieved_chunks: 0}.
C3_NoContextShortCircuit ==
    \A r \in Requests :
        RetrievedNothing(r) =>
            /\ req[r].generate_calls = 0
            /\ req[r].pc = "done"
            /\ req[r].run = "completed"
            /\ req[r].exc = None
            /\ req[r].result =
                  Some([answer |-> ERROR_MESSAGES.no_context,
                        sources |-> <<>>,
                        metadata |-> [retrieved_chunks |-> 0]])
            /\ req[r].response = [status |-> 200, detail |-> "", body |-> req[r].result]

\* C3 witness: a run whose query reached the index and found nothing.
C3_Witness ==
    \E r \in Requests :
        /\ RetrievedNothing(r)
        /\ req[r].query_index_calls = 1
        /\ req[r].run = "completed"

\* C4 as stated: a call of the chunker with overlap >= window ends in a
\* configuration error before any chunking: no chunk is produced and the
\* sliding loop is never entered.
C4_OverlapRejected ==
    (chunker.pc # "idle" /\ chunker.overlap >= chunker.chunk_size) =>
        /\ chunker.pc = "error"
        /\ chunker.chunks = <<>>
        /\ chunker.iterations = 0

Failed(r) == IsChat(r) /\ req[r].exc # None

\* C5: a run that raises is answered with a 500 that carries no body and
\* not the exception's message, and the handler has answered (nothing
\* escapes it); two runs that fail at the same stage with different
\* exception messages get the same response.
C5_ErrorResponseIgnoresExceptionText ==
    \A r \in Requests :
        Failed(r) =>
            /\ req[r].pc = "done"
            /\ req[r].response.status = 500
            /\ req[r].response.body = None
            /\ req[r].response.detail # req[r].exc[1].message
            /\ (last_error # None /\ last_error[1][1] = req[r].exc[1].stage) =>
                   req[r].response = last_error[1][3]

\* C5 witness: two runs that failed at the same stage with different
\* exception messages.
C5_Witness ==
    \E r \in Requests :
        /\ Failed(r)
        /\ last_error # None
        /\ last_error[1][1] = req[r].exc[1].stage
        /\ last_error[1][2] # req[r].exc[1].message

\* C6: when the clients failed to initialize, a chat request that reaches
\* the handler (its body passed the schema) is answered 503 and neither the
\* orchestrator, the retriever, the index nor the generator is invoked.
C6_InitFailureIs503 ==
    \A r \in Requests :
        (IsChat(r) /\ InitFailed /\ ~RoutesSchemaRejects(r)) =>
            /\ req[r].pc = "done"
            /\ req[r].response.status = 503
            /\ req[r].response.body = None
            /\ NoOrchestratorCall(r)

\* C6 witness: a well-formed question answered 503 after a failed
\* initialization.
C6_Witness ==
    \E r \in Requests :
        /\ Answered(r)
        /\ InitFailed
        /\ req[r].question = <<"q">>
        /\ req[r].response.status = 503

\* C7: one run of answer_question calls the retriever exactly once and the
\* generator at most once; a run whose retriever raised never calls the
\* generator and ends failed without an answer; a run whose generator
\* raised ends failed without an answer after one call of each.
C7_CallOnceNoRetry ==
    \A r \in Requests :
        /\ req[r].answer_question_calls <= 1
        /\ req[r].retrieve_calls <= 1
        /\ req[r].generate_calls <= 1
        /\ req[r].query_index_calls <= req[r].retrieve_calls
        /\ req[r].generate_calls <= req[r].retrieve_calls
        /\ (req[r].pc = "generating" \/ req[r].run \in {"completed", "failed"}) =>
               req[r].retrieve_calls = 1
        /\ (req[r].run = "failed") = (req[r].exc # None)
        /\ req[r].run = "failed" =>
               /\ req[r].pc = "done"
               /\ req[r].result = None
               /\ req[r].response.body = None
               /\ IF req[r].exc[1].stage = "retrieval"
                  THEN req[r].generate_calls = 0 /\ req[r].retrieval = None
                  ELSE req[r].generate_calls = 1 /\ req[r].generation = None

\* C7 witness: a run that failed in the generator.
C7_Witness ==
    \E r \in Requests :
        /\ req[r].run = "failed"
        /\ req[r].exc[1].stage = "generation"
        /\ req[r].retrieve_calls = 1
        /\ req[r].generate_calls = 1

\* the first record with the given url
UrlOf(chunk) == IF "source" \in DOMAIN chunk THEN chunk.source ELSE ""

TitleOf(chunk) == IF "title" \in DOMAIN chunk THEN chunk.title ELSE "Unknown"

FirstWithUrl(chunks, url) ==
    CHOOSE i \in 1..Len(chunks) :
        /\ UrlOf(chunks[i]) = url
        /\ \A j \in 1..(i - 1) : UrlOf(chunks[j]) # url

\* sources is the stable de-duplication by url of the records
IsStableDedup(sources, chunks) ==
    /\ \A i \in 1..Len(sources) : sources[i].url # ""
    /\ \A i, j \in 1..Len(sources) : i # j => sources[i].url # sources[j].url
    /\ {sources[i].url : i \in 1..Len(sources)}
          = {UrlOf(chunks[j]) : j \in 1..Len(chunks)} \ {""}
    /\ \A i \in 1..Len(sources) :
          sources[i].title = TitleOf(chunks[FirstWithUrl(chunks, sources[i].url)])
    /\ \A i, j \in 1..Len(sources) :
          i < j => FirstWithUrl(chunks, sources[i].url) < FirstWithUrl(chunks, sources[j].url)

\* a run that retrieved n >= 1 records and whose generation succeeded
Generated(r) ==
    /\ IsChat(r)
    /\ req[r].retrieval # None
    /\ Len(req[r].retrieval[1].chunks) >= 1
    /\ req[r].generation # None

\* C8: when retrieval returns n >= 1 records and generation succeeds, the
\* answer returned has metadata retrieved_chunks = n together with the
\* generator's model, tokens_used and finish_reason, the generator's answer,
\* and as sources the url-de-duplicated sources of the n records, at most n.
C8_CompletedAnswer ==
    \A r \in Requests :
        Generated(r) =>
            LET chunks == req[r].retrieval[1].chunks
                gen == req[r].generation[1]
            IN  /\ req[r].run = "completed"
                /\ req[r].result # None
                /\ req[r].result[1].answer = gen.answer
                /\ DOMAIN req[r].result[1].metadata =
                      {"retrieved_chunks", "model", "tokens_used", "finish_reason"}
                /\ req[r].result[1].metadata.retrieved_chunks = Len(chunks)
                /\ req[r].result[1].metadata.model = gen.metadata.model
                /\ req[r].result[1].metadata.tokens_used = gen.metadata.tokens_used
                /\ req[r].result[1].metadata.finish_reason = gen.metadata.finish_reason
                /\ IsStableDedup(req[r].result[1].sources, chunks)
                /\ Len(req[r].result[1].sources) <= Len(chunks)
                /\ req[r].response = [status |-> 200, detail |-> "", body |-> req[r].result]

\* C8 witness: a completed run over two records of one url, so one source.
C8_Witness ==
    \E r \in Requests :
        /\ Generated(r)
        /\ Len(req[r].retrieval[1].chunks) = 2
        /\ Len(req[r].result[1].sources) = 1
        /\ req[r].result[1].metadata.retrieved_chunks = 2

\* C9: get_rag_pipeline runs the setup at most once; every call after a
\* success returns the one pipeline made, every call after a failure raises
\* the one cached error, and the cached pipeline and the cached error are
\* never both set.
C9_InitializationMemoized ==
    /\ init_attempts <= 1
    /\ ~(_rag_pipeline # None /\ _initialization_error # None)
    /\ Cardinality(pipeline_log) <= 1
    /\ (pipeline_calls >= 1) =
          (init_attempts = 1 /\ (_rag_pipeline # None \/ _initialization_error # None))
    /\ (pipeline_calls >= 1) = (pipeline_log # {})
    /\ \A outcome \in pipeline_log :
          IF outcome[1] = "returned"
          THEN _rag_pipeline = Some(outcome[2])
          ELSE _initialization_error = Some(outcome[2])

\* C9 witness: get_rag_pipeline called again after a failed setup.
C9_Witness ==
    /\ pipeline_calls >= 2
    /\ _initialization_error # None
    /\ init_attempts = 1

\* C10 as stated: the num_results of every similarity query is between 1
\* and 10, and it is the configured default 3 when the body has no top_k.
C10_TopKWithinLimits ==
    \A r \in Requests :
        (IsChat(r) /\ req[r].num_results_sent # None) =>
            /\ req[r].num_results_sent[1] >= 1
            /\ req[r].num_results_sent[1] <= 10
            /\ req[r].body_top_k = <<"absent">> => req[r].num_results_sent[1] = 3

\* blank: nothing but whitespace, or nothing at all
AllWhitespace(q) == \A i \in 1..Len(q) : q[i] = " "

\* C15: retrieve() called with an empty or whitespace-only query returns a
\* result of zero records, raises nothing and never calls the vector index.
C15_BlankQueryNoNetwork ==
    (unit.op = "retrieve" /\ AllWhitespace(unit.input.query)) =>
        /\ unit.output.query_index_calls = 0
        /\ unit.output.raised = None
        /\ unit.output.result # None
        /\ unit.output.result[1].chunks = <<>>
        /\ unit.output.result[1].num_results = 0

\* C15 witness: retrieve("  ") has returned without a call to the index.
C15_Witness ==
    /\ unit.op = "retrieve"
    /\ unit.input.query = <<" ", " ">>
    /\ unit.output.query_index_calls = 0
    /\ unit.output.result # None

\* C16: the list get_sources() returns never holds two entries with the same
\* url.
C16_NoDuplicateUrl ==
    unit.op = "get_sources" =>
        \A i, j \in 1..Len(unit.output) :
            unit.output[i].url = unit.output[j].url => i = j

\* C16 witness: get_sources() has run over records that repeat a url.
C16_Witness ==
    /\ unit.op = "get_sources"
    /\ \E i, j \in 1..Len(unit.input.chunks) :
          /\ i # j
          /\ UrlOf(unit.input.chunks[i]) = UrlOf(unit.input.chunks[j])
          /\ UrlOf(unit.input.chunks[i]) # ""
    /\ Len(unit.output) >= 2

\* the urls of a list of records or of sources, in order
UrlsOf(chunks) == [i \in 1..Len(chunks) |-> UrlOf(chunks[i])]

SourceUrls(sources) == [i \in 1..Len(sources) |-> sources[i].url]

\* C17: get_sources() is a stable de-duplication by url: one {title, url}
\* entry per distinct non-empty url, in order of first occurrence, with the
\* title of the first record of that url; records whose url is empty or
\* missing give no entry.
C17_StableDedup ==
    unit.op = "get_sources" =>
        /\ IsStableDedup(unit.output, unit.input.chunks)
        /\ \A i \in 1..Len(unit.output) : DOMAIN unit.output[i] = {"title", "url"}

\* C17 witness: records with urls [a, b, a, c] have given sources [a, b, c].
C17_Witness ==
    /\ unit.op = "get_sources"
    /\ UrlsOf(unit.input.chunks) = <<"a", "b", "a", "c">>
    /\ SourceUrls(unit.output) = <<"a", "b", "c">>

\* a health request that has been answered
HealthDone(r) == req[r].kind = "health" /\ req[r].pc = "done"

\* the orchestrator the serving application holds, if it was initialized
Initialized == IF facade = "routes" THEN rag_pipeline # None ELSE _rag_pipeline # None

\* the health_check() of a component ran and returned true
CheckTrue(r, component) ==
    /\ req[r].health_checks # None
    /\ ~req[r].health_checks[1][component].raised
    /\ req[r].health_checks[1][component].value

\* C13: GET /api/health answers "healthy" exactly when the vector_search check
\* and the llm check both returned true and the orchestrator was initialized,
\* and "degraded" in every other case.
C13_HealthyExactlyWhenAllUp ==
    \A r \in Requests :
        HealthDone(r) =>
            /\ req[r].response.body # None
            /\ req[r].response.body[1].status \in {"healthy", "degraded"}
            /\ req[r].response.body[1].status = "healthy"
                  <=> (CheckTrue(r, "vector_search") /\ CheckTrue(r, "llm") /\ Initialized)

\* C13 witness: a health request answered "healthy" by an initialized service.
C13_Witness ==
    \E r \in Requests :
        /\ HealthDone(r)
        /\ Initialized
        /\ req[r].probes = <<"ok", "content">>
        /\ req[r].response.body[1].status = "healthy"

\* C14: no health_check() of the retriever or the generator raises (a failed
\* probe makes it return false), and every health request is answered with a
\* health response, whatever the probes do and whether or not the service
\* was initialized.
C14_HealthNeverRaises ==
    \A r \in Requests :
        HealthDone(r) =>
            /\ req[r].health_checks # None =>
                  \A component \in {"vector_search", "llm"} :
                      /\ ~req[r].health_checks[1][component].raised
                      /\ req[r].health_checks[1][component].value \in BOOLEAN
            /\ (req[r].health_checks # None /\ req[r].probes[1] = "raises")
                  => ~req[r].health_checks[1].vector_search.value
            /\ (req[r].health_checks # None /\ req[r].probes[2] # "content")
                  => ~req[r].health_checks[1].llm.value
            /\ req[r].response.status = 200
            /\ req[r].response.body # None
            /\ req[r].response.body[1].status \in {"healthy", "degraded"}
            /\ {"vector_search", "llm"} \subseteq DOMAIN req[r].response.body[1].components

\* C14 witness: a health request answered although both probes raised.
C14_Witness ==
    \E r \in Requests :
        /\ HealthDone(r)
        /\ req[r].health_checks # None
        /\ req[r].probes = <<"raises", "raises">>
        /\ req[r].response.status = 200
        /\ req[r].response.body[1].status = "degraded"

\* the turns handed to generate(): none when the history is None
SuppliedHistory == IF unit.input.conversation_history = None THEN <<>>
                   ELSE unit.input.conversation_history[1]

Min(a, b) == IF a < b THEN a ELSE b

\* C11: the messages generate() sends are the system message, then exactly the
\* last min(n, 10) turns of the n supplied, oldest first, then one user
\* message made of the template around context and question.
C11_MessagesSent ==
    unit.op = "generate" =>
        LET h == SuppliedHistory
            n == Len(h)
            k == Min(n, 10)
            messages == unit.output.messages
        IN  /\ Len(messages) = k + 2
            /\ messages[1] = [role |-> "system", content |-> SYSTEM_PROMPT]
            /\ \A i \in 1..k : messages[1 + i].content = h[n - k + i].content
            /\ messages[k + 2] =
                  [role |-> "user",
                   content |-> create_rag_prompt(unit.input.query, unit.input.context)]

\* C11 witness: generate() was given more than ten turns and sent the ten
\* newest of them.
C11_Witness ==
    /\ unit.op = "generate"
    /\ Len(SuppliedHistory) > 10
    /\ Len(unit.output.messages) = 12
    /\ unit.output.messages[2].content = SuppliedHistory[Len(SuppliedHistory) - 9].content
    /\ unit.output.messages[11].content = SuppliedHistory[Len(SuppliedHistory)].content

\* what a block of type text adds to the answer
TextOfTextBlock(block) ==
    IF block.is_dict /\ block.type = <<"text">> /\ block.text # <<>>
    THEN block.text[1] ELSE ""

\* the texts of the first n blocks that are of type text, in order
RECURSIVE TextBlocksUpTo(_, _)
TextBlocksUpTo(blocks, n) ==
    IF n = 0 THEN "" ELSE TextBlocksUpTo(blocks, n - 1) \o TextOfTextBlock(blocks[n])

\* the "text" of the first n blocks that are dicts with that key, whatever
\* their type, with one space between two of them
RECURSIVE AnyTextUpTo(_, _)
AnyTextUpTo(blocks, n) ==
    IF n = 0 THEN ""
    ELSE IF ~(blocks[n].is_dict /\ blocks[n].text # <<>>) THEN AnyTextUpTo(blocks, n - 1)
    ELSE IF \E i \in 1..(n - 1) : blocks[i].is_dict /\ blocks[i].text # <<>>
         THEN AnyTextUpTo(blocks, n - 1) \o " " \o blocks[n].text[1]
         ELSE blocks[n].text[1]

\* generate() returned an answer extracted from the completion's content
Extracted == unit.op = "generate" /\ unit.output.result # None

\* C12 as claimed: for a list of blocks the answer is the concatenation of the
\* text of the blocks of type text and no other block adds anything; for a
\* plain string the answer is that string.
C12_OnlyTextBlocks ==
    Extracted =>
        LET content == unit.input.llm.content IN
        unit.output.result[1].answer =
            IF content.kind = "list"
            THEN TextBlocksUpTo(content.blocks, Len(content.blocks))
            ELSE content.text

\* C12 amended: for a list of blocks the answer is the concatenation of the
\* text of the blocks of type text unless that is empty, and then it is the
\* "text" of every dict block that has one, of any type, joined by spaces;
\* for a plain string the answer is that string.
C12_TextBlocksOrFallback ==
    Extracted =>
        LET content == unit.input.llm.content
            texts == TextBlocksUpTo(content.blocks, Len(content.blocks))
        IN  unit.output.result[1].answer =
                IF content.kind = "list"
                THEN (IF texts # "" THEN texts
                      ELSE AnyTextUpTo(content.blocks, Len(content.blocks)))
                ELSE content.text

\* C12 witness: a content with a reasoning block and no text of type text has
\* given the reasoning block's text as the answer.
C12_Witness ==
    /\ Extracted
    /\ unit.input.llm.content.kind = "list"
    /\ \E i \in 1..Len(unit.input.llm.content.blocks) :
          unit.input.llm.content.blocks[i] = Block(TRUE, <<"reasoning">>, <<"x">>)
    /\ TextBlocksUpTo(unit.input.llm.content.blocks,
                      Len(unit.input.llm.content.blocks)) = ""
    /\ unit.output.result[1].answer = "x"

\* the number of words of a text: its tokens that are not whitespace
WordCount(text) == Cardinality({i \in 1..Len(text) : text[i] # 0})

\* chunk_text has returned
ChunkReturned == chunker.pc = "returned"

\* C18: for a text of at most chunk_size words, chunk_text returns the list
\* of that one text, unchanged, when it has at least MIN_CHUNK_SIZE words, and
\* the empty list when it has fewer; the loop is not entered.
C18_ShortText ==
    (chunker.pc # "idle" /\ WordCount(chunker.text) <= chunker.chunk_size) =>
        /\ ChunkReturned
        /\ chunker.iterations = 0
        /\ chunker.chunks = IF WordCount(chunker.text) >= chunker.MIN_CHUNK_SIZE
                            THEN <<chunker.text>> ELSE <<>>

\* C18 witness: a text with leading, trailing and doubled whitespace was
\* returned as the one chunk.
C18_Witness ==
    /\ ChunkReturned
    /\ WordCount(chunker.text) = 2
    /\ WordCount(chunker.text) <= chunker.chunk_size
    /\ Len(chunker.text) > 3
    /\ chunker.chunks = <<chunker.text>>

\* a call on a text longer than the window, with the overlap below the window
LongText ==
    /\ WordCount(chunker.text) > chunker.chunk_size
    /\ chunker.overlap < chunker.chunk_size

\* ceil(a / b) for b > 0
CeilDiv(a, b) == (a + b - 1) \div b

\* the number of windows over w words
Windows ==
    CeilDiv(WordCount(chunker.text) - chunker.overlap,
            chunker.chunk_size - chunker.overlap)

\* the number of words of the last window
TrailingWords ==
    WordCount(chunker.text) - (Windows - 1) * (chunker.chunk_size - chunker.overlap)

\* C19 as claimed: for w > chunk_size words and overlap < chunk_size the
\* number of chunks is ceil((w - overlap) / (chunk_size - overlap)), less one
\* only when the last window is shorter than MIN_CHUNK_SIZE and is dropped.
C19_ChunkCount ==
    (ChunkReturned /\ LongText) =>
        Len(chunker.chunks) =
            IF TrailingWords < chunker.MIN_CHUNK_SIZE THEN Windows - 1 ELSE Windows

\* C19 amended: the count of C19 holds when MIN_CHUNK_SIZE <= chunk_size; when
\* MIN_CHUNK_SIZE > chunk_size every window is shorter than the minimum and
\* no chunk at all is returned.
C19_ChunkCountForWindowAboveMinimum ==
    (ChunkReturned /\ LongText) =>
        Len(chunker.chunks) =
            IF chunker.MIN_CHUNK_SIZE > chunker.chunk_size THEN 0
            ELSE IF TrailingWords < chunker.MIN_CHUNK_SIZE THEN Windows - 1
            ELSE Windows

\* C19 witness: seven or fewer words gave three windows of which the last,
\* shorter than the minimum, was dropped.
C19_Witness ==
    /\ ChunkReturned
    /\ LongText
    /\ chunker.MIN_CHUNK_SIZE <= chunker.chunk_size
    /\ Windows = 3
    /\ TrailingWords < chunker.MIN_CHUNK_SIZE
    /\ Len(chunker.chunks) = 2

\* the words of the last window, joined by single spaces
TrailingChunk ==
    LET words == SelectSeq(chunker.text, LAMBDA token : token # 0)
        from == Len(words) - TrailingWords + 1
    IN  [i \in 1..(2 * TrailingWords - 1) |->
            IF i % 2 = 1 THEN words[from + (i - 1) \div 2] ELSE 0]

\* C20: at every point of every call, each chunk collected has at least
\* MIN_CHUNK_SIZE and at most chunk_size words; a last window shorter than the
\* minimum is not among the chunks returned.
C20_ChunkSizeWithinLimits ==
    /\ \A i \in 1..Len(chunker.chunks) :
          /\ WordCount(chunker.chunks[i]) >= chunker.MIN_CHUNK_SIZE
          /\ WordCount(chunker.chunks[i]) <= chunker.chunk_size
    /\ (ChunkReturned /\ LongText /\ TrailingWords < chunker.MIN_CHUNK_SIZE) =>
          \A i \in 1..Len(chunker.chunks) : chunker.chunks[i] # TrailingChunk

\* C20 witness: a call returned chunks and had dropped its last, short window.
C20_Witness ==
    /\ ChunkReturned
    /\ LongText
    /\ TrailingWords < chunker.MIN_CHUNK_SIZE
    /\ Len(chunker.chunks) >= 1
    /\ chunker.iterations = Len(chunker.chunks) + 1

\* the words of a text or of a chunk, in order
WordsOf(text) == SelectSeq(text, LAMBDA token : token # 0)

\* chunk_text returned for a text of more words than the window
ReturnedLong == ChunkReturned /\ WordCount(chunker.text) > chunker.chunk_size

\* C21: when chunk_text returns for a text longer than the window, each chunk
\* after the first begins with the last `overlap` words of the chunk before
\* it and shares no further word with it: its first word lies exactly
\* `overlap` words before the end of the previous chunk. (The last chunk
\* needs no exception.)
C21_ConsecutiveOverlap ==
    ReturnedLong =>
        \A i \in 1..(Len(chunker.chunks) - 1) :
            LET this == WordsOf(chunker.chunks[i])
                next == WordsOf(chunker.chunks[i + 1])
                o == chunker.overlap
            IN  /\ Len(this) >= o
                /\ Len(next) >= o
                /\ SubSeq(this, Len(this) - o + 1, Len(this)) = SubSeq(next, 1, o)
                /\ next[1] = this[Len(this)] - o + 1

\* C21 witness: a call returned three chunks that overlap by two words.
C21_Witness ==
    /\ ReturnedLong
    /\ chunker.overlap = 2
    /\ Len(chunker.chunks) = 3
    /\ WordsOf(chunker.chunks[2])[1] = WordsOf(chunker.chunks[1])[2]

\* the words joined by single spaces, as a text
Joined(words) ==
    [i \in 1..(2 * Len(words) - 1) |-> IF i % 2 = 1 THEN words[(i + 1) \div 2] ELSE 0]

\* the step of the window
Step == chunker.chunk_size - chunker.overlap

\* the words under the window that starts at position start (0-based)
WindowAt(start) ==
    LET words == WordsOf(chunker.text)
        last == IF start + chunker.chunk_size > Len(words)
                THEN Len(words) ELSE start + chunker.chunk_size
    IN  SubSeq(words, start + 1, last)

\* the chunks of the first n window positions 0, s, 2s, ...: one for each
\* window of at least MIN_CHUNK_SIZE words, in order
ChunksOfWindows(n) ==
    LET windows == [k \in 1..n |-> WindowAt((k - 1) * Step)]
        kept == SelectSeq(windows, LAMBDA w : Len(w) >= chunker.MIN_CHUNK_SIZE)
    IN  [k \in 1..Len(kept) |-> Joined(kept[k])]

\* the number of positions 0, s, 2s, ... that lie before the end of the words
StartsBeforeEnd == CeilDiv(WordCount(chunker.text), Step)

\* C22 as claimed: for a text longer than the window the chunks returned are
\* those of every window position 0, s, 2s, ... before the end of the words
\* whose window holds at least MIN_CHUNK_SIZE words; the loop ends only when
\* the window start has reached the end.
C22_EveryStartBeforeEnd ==
    (ChunkReturned /\ LongText) =>
        /\ chunker.chunks = ChunksOfWindows(StartsBeforeEnd)
        /\ chunker.iterations = StartsBeforeEnd

\* C22 amended: the chunks returned are those of the window positions
\* 0, s, 2s, ... up to and including the first whose window end reaches or
\* passes the last word, for each window of at least MIN_CHUNK_SIZE words;
\* the loop ends there, and later positions before the end give no chunk.
C22_EveryStartUpToLastWindow ==
    (ChunkReturned /\ LongText) =>
        /\ chunker.chunks = ChunksOfWindows(Windows)
        /\ chunker.iterations = Windows
        /\ (Windows - 1) * Step + chunker.chunk_size >= WordCount(chunker.text)
        /\ \A k \in 1..(Windows - 1) :
              (k - 1) * Step + chunker.chunk_size < WordCount(chunker.text)

\* C22 witness: the loop ended although a further window position lay before
\* the end and its window held enough words.
C22_Witness ==
    /\ ChunkReturned
    /\ LongText
    /\ Windows * Step < WordCount(chunker.text)
    /\ Len(WindowAt(Windows * Step)) >= chunker.MIN_CHUNK_SIZE
    /\ Len(chunker.chunks) = Windows
    /\ Windows >= 2

\* a call is in its loop with a setting of 0 <= overlap < chunk_size
LoopingWellConfigured ==
    /\ chunker.pc = "loop"
    /\ chunker.chunk_size >= 1
    /\ chunker.overlap >= 0
    /\ chunker.overlap < chunker.chunk_size

\* one pass of the loop of such a call moves the window start forward
StartAdvances ==
    (LoopingWellConfigured /\ chunker'.iterations = chunker.iterations + 1)
        => chunker'.start_idx > chunker.start_idx

\* such a call has returned after exactly the passes up to the first window
\* whose end reaches or passes the last word
ExitsAtLastWindow ==
    (ChunkReturned /\ LongText) =>
        /\ chunker.iterations = Windows
        /\ chunker.iterations <= WordCount(chunker.text)

\* C26: for chunk_size >= 1 and 0 <= overlap < chunk_size every call of
\* chunk_text returns: each pass of the loop moves the window start strictly
\* forward, a call in the loop eventually returns, and it returns at the
\* first window whose end reaches or passes the last word.
C26_Terminates ==
    /\ [][StartAdvances]_vars
    /\ [](ExitsAtLastWindow)
    /\ (LoopingWellConfigured ~> ChunkReturned)

\* C26 witness: a call returned after three passes of the loop.
C26_Witness ==
    /\ ChunkReturned
    /\ LongText
    /\ chunker.iterations = 3
    /\ chunker.start_idx = 3 * Step

\* the words of the chunks put together again: the first chunk, then of each
\* later chunk the words after its first `overlap`
RECURSIVE Reassembled(_, _)
Reassembled(chunks, n) ==
    IF n = 0 THEN <<>>
    ELSE IF n = 1 THEN WordsOf(chunks[1])
    ELSE LET words == WordsOf(chunks[n])
         IN  Reassembled(chunks, n - 1) \o SubSeq(words, chunker.overlap + 1, Len(words))

\* C27: when chunk_text returns for a text longer than the window and
\* MIN_CHUNK_SIZE <= overlap + 1, no window is dropped: the first chunk begins
\* with the first word, the last chunk ends with the last word, each chunk
\* begins no later than one word after the end of the chunk before it, and
\* the chunks put together in order give back the words of the text.
C27_NoContentLost ==
    (ReturnedLong /\ chunker.MIN_CHUNK_SIZE <= chunker.overlap + 1) =>
        LET words == WordsOf(chunker.text)
            n == Len(chunker.chunks)
        IN  /\ n = Windows
            /\ n >= 2
            /\ WordsOf(chunker.chunks[1])[1] = words[1]
            /\ LET last == WordsOf(chunker.chunks[n]) IN last[Len(last)] = words[Len(words)]
            /\ \A i \in 1..(n - 1) :
                  LET this == WordsOf(chunker.chunks[i])
                  IN  WordsOf(chunker.chunks[i + 1])[1] <= this[Len(this)] + 1
            /\ Reassembled(chunker.chunks, n) = words

\* C27 witness: a call with a minimum of overlap + 1 words returned three
\* chunks, the last of them a partial window.
C27_Witness ==
    /\ ReturnedLong
    /\ chunker.MIN_CHUNK_SIZE = chunker.overlap + 1
    /\ Len(chunker.chunks) = 3
    /\ TrailingWords < chunker.chunk_size
    /\ Reassembled(chunker.chunks, 3) = WordsOf(chunker.text)

ContentOf(chunk) == IF "content" \in DOMAIN chunk THEN chunk.content ELSE ""

\* the labeled block of the record at position i
LabeledBlock(chunk, i) ==
    "[Source " \o ToString(i) \o ": " \o TitleOf(chunk) \o "]\n"
    \o ContentOf(chunk) \o "\nURL: " \o UrlOf(chunk)

\* the blocks of the first n records, n >= 1, in order, a separator between
\* every two of them
RECURSIVE BlocksUpTo(_, _)
BlocksUpTo(chunks, n) ==
    IF n = 1 THEN LabeledBlock(chunks[1], 1)
    ELSE BlocksUpTo(chunks, n - 1) \o "\n\n---\n\n" \o LabeledBlock(chunks[n], n)

\* both methods of a RetrievalResult have been called
ResultRendered == unit.op = "RetrievalResult"

\* C24: for n >= 1 records get_context_string() is the labeled blocks of the
\* records, numbered 1..n, one per record in the order of the records (a
\* repeated record is rendered again), with the separator between every two:
\* n blocks and n - 1 separators.
C24_ContextBlocksInOrder ==
    (ResultRendered /\ unit.input.chunks # <<>>) =>
        unit.output.context = BlocksUpTo(unit.input.chunks, Len(unit.input.chunks))

\* C24 witness: three records, the first and the last of them the same, were
\* rendered.
C24_Witness ==
    /\ ResultRendered
    /\ Len(unit.input.chunks) = 3
    /\ unit.input.chunks[1] = unit.input.chunks[3]
    /\ unit.input.chunks[1] # unit.input.chunks[2]
    /\ unit.output.context = BlocksUpTo(unit.input.chunks, 3)
    /\ Len(unit.output.sources) < 3

\* C25: a RetrievalResult of zero records renders the fixed sentence
\* "No relevant information found." and lists no sources.
C25_EmptyResult ==
    (ResultRendered /\ unit.input.chunks = <<>>) =>
        /\ unit.input.num_results = 0
        /\ unit.output.context = "No relevant information found."
        /\ unit.output.sources = <<>>

\* C25 witness: both methods were called on a result of zero records.
C25_Witness ==
    /\ ResultRendered
    /\ unit.input.num_results = 0
    /\ unit.output.context = "No relevant information found."
    /\ unit.output.sources = <<>>

\* the turns of the supplied history that generate() keeps: the last ten
KeptTurns ==
    LET h == SuppliedHistory
    IN  SubSeq(h, Len(h) - Min(Len(h), 10) + 1, Len(h))

\* C30: each turn generate() keeps is sent with the role user when its own
\* role is exactly "user" and with the role assistant otherwise, whatever
\* that role is; the only system message sent is the first, fixed one.
C30_TurnRoles ==
    unit.op = "generate" =>
        LET messages == unit.output.messages IN
        /\ Len(messages) = Len(KeptTurns) + 2
        /\ \A i \in 1..Len(KeptTurns) :
              /\ messages[1 + i].role =
                    IF KeptTurns[i].role = "user" THEN "user" ELSE "assistant"
              /\ messages[1 + i].role # "system"
        /\ \A i \in 2..Len(messages) : messages[i].role \in {"user", "assistant"}

\* C30 witness: a turn of role "system" and one of role "tool" were kept and
\* sent as assistant messages.
C30_Witness ==
    /\ unit.op = "generate"
    /\ Len(KeptTurns) >= 3
    /\ KeptTurns[1].role = "system"
    /\ unit.output.messages[2].role = "assistant"
    /\ \E i \in 1..Len(KeptTurns) :
          KeptTurns[i].role = "tool" /\ unit.output.messages[1 + i].role = "assistant"

\* once failed, the initialization stays failed and is not attempted again
FailureStays ==
    InitFailed =>
        /\ InitFailed'
        /\ init_attempts' = init_attempts
        /\ _rag_pipeline' = _rag_pipeline
        /\ rag_pipeline' = rag_pipeline
        /\ _initialization_error' = _initialization_error

\* while failed, every answer is a 503 or a "degraded"
FailedAnswers ==
    InitFailed =>
        \A r \in Requests :
            /\ (Answered(r) /\ ~RoutesSchemaRejects(r)) =>
                  (req[r].response.status = 503 /\ NoOrchestratorCall(r))
            /\ HealthDone(r) =>
                  /\ req[r].response.status = 200
                  /\ req[r].response.body[1].status = "degraded"
            /\ req[r].pc \in {"idle", "done"}

\* C28: a failed initialization is permanent: no later request changes the
\* failed state or runs the setup again, and from then on every chat request
\* the handler receives is answered 503 and every health request "degraded".
C28_InitFailurePermanent ==
    /\ [][FailureStays]_vars
    /\ [](FailedAnswers)

\* C28 witness: app.py, after a failed setup and at least one later call of
\* get_rag_pipeline, has answered a health request "degraded".
C28_Witness ==
    /\ facade = "app"
    /\ InitFailed
    /\ init_attempts = 1
    /\ pipeline_calls >= 2
    /\ \E r \in Requests :
          HealthDone(r) /\ req[r].response.body[1].status = "degraded"

RunAlone(request) ==
    IF ~ChatRequest_valid(facade, request.question, request.body_top_k)
    THEN RequestValidationError
    ELSE LET entry == chat_entry(facade, request.question, request.body_top_k,
                                 request.pipeline_available)
         IN  IF entry.pc = "done" THEN entry.response
             ELSE LET rr == retrieve(entry.query, entry.top_k, request.index_response[1])
                      first == after_retrieve(rr)
                  IN  IF first.next # "generate" THEN chat_exit(facade, entry, first).response
                      ELSE LET gr == generate(str_of(entry.query),
                                              get_context_string(rr.result[1].chunks),
                                              history_argument(request.conversation_history),
                                              request.llm_response[1])
                           IN  chat_exit(facade, entry,
                                         after_generate(rr.result[1], gr)).response

\* C23: whatever the interleaving of the steps of two requests served through
\* the one pipeline, each request that has been answered has the response it
\* gets when served alone with the same body and the same answers of the
\* index and the endpoint, and a step of one request leaves the other
\* request's record as it was.
C23_NoInterference ==
    /\ [][\A r \in Requests :
            (req'[r] # req[r]) => (\A o \in Requests \ {r} : req'[o] = req[o])]_vars
    /\ [](\A r \in Requests : Answered(r) => req[r].response = RunAlone(req[r]))

\* C23 witness: two requests that each retrieved another page while the other
\* was in flight have both been answered with their own sources.
C23_Witness ==
    /\ \A r \in Requests :
          Generated(r) /\ req[r].response.status = 200 /\ req[r].served_with_others
    /\ req["r1"].retrieval[1].chunks # req["r2"].retrieval[1].chunks
    /\ req["r1"].response.body[1].sources # req["r2"].response.body[1].sources
    /\ req["r1"].llm_response # req["r2"].llm_response

====
